---- MODULE Spec2Model ----
(***************************************************************************)
(* Number-region extraction pipeline of the DMS repository                 *)
(* (src/extractor/utils.py, src/extractor/views.py).                       *)
(*                                                                         *)
(* Boxes are integer pixel rectangles.  A merge threshold is written in    *)
(* tenths: the code's 0.2 is 2 and 0.1 is 1, and the comparison            *)
(* ratio > threshold is done on cross-multiplied integers.                 *)
(***************************************************************************)
EXTENDS Integers, Sequences, FiniteSets, TLC

(***************************************************************************)
(* Bounds of the model.                                                    *)
(***************************************************************************)
MaxPool == 3

(***************************************************************************)
(* Small helpers.                                                          *)
(***************************************************************************)
Max2(a, b) == IF a >= b THEN a ELSE b
Min2(a, b) == IF a <= b THEN a ELSE b
Abs(a) == IF a >= 0 THEN a ELSE -a
Range(s) == {s[i] : i \in 1..Len(s)}

\* A merged region has no 'source' key (merge_two_regions builds a new dict).
NoSource == "<absent>"

Det(x, y, w, h, c, txt, src) ==
    [x |-> x, y |-> y, width |-> w, height |-> h,
     confidence |-> c, text |-> txt, source |-> src]

Area(r) == r.width * r.height

(***************************************************************************)
(* regions_overlap: intersection area over the smaller area, > threshold.  *)
(***************************************************************************)
IntersectionArea(r1, r2) ==
    LET left   == Max2(r1.x, r2.x)
        top    == Max2(r1.y, r2.y)
        right  == Min2(r1.x + r1.width, r2.x + r2.width)
        bottom == Min2(r1.y + r1.height, r2.y + r2.height)
    IN  IF left >= right \/ top >= bottom THEN 0
        ELSE (right - left) * (bottom - top)

regions_overlap(r1, r2, t) ==
    LET inter == IntersectionArea(r1, r2)
    IN  /\ inter > 0
        /\ inter * 10 > t * Min2(Area(r1), Area(r2))

\* The call of regions_overlap with its way of ending: the value it
\* returns, or the ZeroDivisionError of the division by min(area1, area2).
\* The ratio is compared by cross-multiplication, with the sign of the
\* divisor.
regions_overlap_call_unguarded(r1, r2, t) ==
    LET left   == Max2(r1.x, r2.x)
        top    == Max2(r1.y, r2.y)
        right  == Min2(r1.x + r1.width, r2.x + r2.width)
        bottom == Min2(r1.y + r1.height, r2.y + r2.height)
        intersection_area == (right - left) * (bottom - top)
        smaller == Min2(r1.width * r1.height, r2.width * r2.height)
    IN  IF left > right \/ top > bottom THEN "False"
        ELSE IF smaller = 0 THEN "ZeroDivisionError"
        ELSE IF smaller > 0 /\ intersection_area * 10 > t * smaller
                THEN "True"
        ELSE IF smaller < 0 /\ intersection_area * 10 < t * smaller
                THEN "True"
        ELSE "False"

regions_overlap_call(r1, r2, t) ==
    LET left   == Max2(r1.x, r2.x)
        top    == Max2(r1.y, r2.y)
        right  == Min2(r1.x + r1.width, r2.x + r2.width)
        bottom == Min2(r1.y + r1.height, r2.y + r2.height)
        intersection_area == (right - left) * (bottom - top)
        smaller == Min2(r1.width * r1.height, r2.width * r2.height)
    IN  IF left >= right \/ top >= bottom THEN "False"
        ELSE IF smaller = 0 THEN "ZeroDivisionError"
        ELSE IF smaller > 0 /\ intersection_area * 10 > t * smaller
                THEN "True"
        ELSE IF smaller < 0 /\ intersection_area * 10 < t * smaller
                THEN "True"
        ELSE "False"

(***************************************************************************)
(* regions_nearby: centre distance < 50 and vertical centre offset         *)
(* < 0.8 * max(h1, h2).  Centres are kept doubled to stay in integers.     *)
(***************************************************************************)
regions_nearby_no_align(r1, r2) ==
    LET dx2 == (2 * r1.x + r1.width) - (2 * r2.x + r2.width)
        dy2 == (2 * r1.y + r1.height) - (2 * r2.y + r2.height)
    IN  dx2 * dx2 + dy2 * dy2 < 4 * 50 * 50

regions_nearby(r1, r2) ==
    LET dx2 == (2 * r1.x + r1.width) - (2 * r2.x + r2.width)
        dy2 == (2 * r1.y + r1.height) - (2 * r2.y + r2.height)
    IN  /\ dx2 * dx2 + dy2 * dy2 < 4 * 50 * 50
        /\ 5 * Abs(dy2) < 8 * Max2(r1.height, r2.height)

(***************************************************************************)
(* A text is a sequence of tokens: one token per character of a recognised *)
(* string, or one token for a detector's fixed tag.  str.strip() removes   *)
(* the whitespace tokens at both ends.                                     *)
(***************************************************************************)
Whitespace == {" "}

RECURSIVE LStrip(_)
LStrip(s) ==
    IF s = <<>> THEN s
    ELSE IF Head(s) \in Whitespace THEN LStrip(Tail(s)) ELSE s

RECURSIVE RStrip(_)
RStrip(s) ==
    IF s = <<>> THEN s
    ELSE IF s[Len(s)] \in Whitespace THEN RStrip(SubSeq(s, 1, Len(s) - 1)) ELSE s

Strip(s) == RStrip(LStrip(s))

\* f"{text1} {text2}".strip()
JoinText(t1, t2) == Strip(t1 \o <<" ">> \o t2)

(***************************************************************************)
(* merge_two_regions: union box, maximum confidence, texts joined.         *)
(***************************************************************************)
merge_two_regions_text_swapped(r1, r2) ==
    LET left   == Min2(r1.x, r2.x)
        top    == Min2(r1.y, r2.y)
        right  == Max2(r1.x + r1.width, r2.x + r2.width)
        bottom == Max2(r1.y + r1.height, r2.y + r2.height)
    IN  Det(left, top, right - left, bottom - top,
            Max2(r1.confidence, r2.confidence), JoinText(r2.text, r1.text),
            NoSource)

merge_two_regions_min(r1, r2) ==
    LET left   == Min2(r1.x, r2.x)
        top    == Min2(r1.y, r2.y)
        right  == Max2(r1.x + r1.width, r2.x + r2.width)
        bottom == Max2(r1.y + r1.height, r2.y + r2.height)
    IN  Det(left, top, right - left, bottom - top,
            Min2(r1.confidence, r2.confidence), JoinText(r1.text, r2.text), NoSource)

merge_two_regions(r1, r2) ==
    LET left   == Min2(r1.x, r2.x)
        top    == Min2(r1.y, r2.y)
        right  == Max2(r1.x + r1.width, r2.x + r2.width)
        bottom == Max2(r1.y + r1.height, r2.y + r2.height)
    IN  Det(left, top, right - left, bottom - top,
            Max2(r1.confidence, r2.confidence), JoinText(r1.text, r2.text), NoSource)

(***************************************************************************)
(* detections.sort(key=(confidence, area), reverse=True): a stable sort,   *)
(* so equal keys keep their relative order.                                *)
(***************************************************************************)
KeyLess_ascending(a, b) ==
    \/ a.confidence > b.confidence
    \/ a.confidence = b.confidence /\ Area(a) > Area(b)

KeyLess(a, b) ==
    \/ a.confidence < b.confidence
    \/ a.confidence = b.confidence /\ Area(a) < Area(b)

RECURSIVE InsertSorted(_, _)
InsertSorted(s, d) ==
    IF s = <<>> THEN <<d>>
    ELSE IF KeyLess(Head(s), d) THEN <<d>> \o s
    ELSE <<Head(s)>> \o InsertSorted(Tail(s), d)

RECURSIVE SortFrom(_, _, _)
SortFrom(dets, k, acc) ==
    IF k > Len(dets) THEN acc
    ELSE SortFrom(dets, k + 1, InsertSorted(acc, dets[k]))

SortDetections(dets) == SortFrom(dets, 1, <<>>)

(***************************************************************************)
(* merge_overlapping_regions: greedy seed-and-absorb over the sorted pool. *)
(***************************************************************************)
\* The inner loop.  parts lists the positions, in the sorted pool, of the
\* seed and of the detections absorbed into cur so far, in that order.
RECURSIVE MergeInner_absorbed_not_used(_, _, _, _, _, _)
MergeInner_absorbed_not_used(cur, parts, dets, j, used, t) ==
    IF j > Len(dets) THEN [region |-> cur, parts |-> parts, used |-> used]
    ELSE IF j \in used
         THEN MergeInner_absorbed_not_used(cur, parts, dets, j + 1, used, t)
    ELSE IF regions_overlap(cur, dets[j], t) \/ regions_nearby(cur, dets[j])
         THEN MergeInner_absorbed_not_used(merge_two_regions(cur, dets[j]),
                         Append(parts, j), dets, j + 1, used, t)
         ELSE MergeInner_absorbed_not_used(cur, parts, dets, j + 1, used, t)

RECURSIVE MergeInner(_, _, _, _, _, _)
MergeInner(cur, parts, dets, j, used, t) ==
    IF j > Len(dets) THEN [region |-> cur, parts |-> parts, used |-> used]
    ELSE IF j \in used THEN MergeInner(cur, parts, dets, j + 1, used, t)
    ELSE IF regions_overlap(cur, dets[j], t) \/ regions_nearby(cur, dets[j])
         THEN MergeInner(merge_two_regions(cur, dets[j]), Append(parts, j),
                         dets, j + 1, used \cup {j}, t)
         ELSE MergeInner(cur, parts, dets, j + 1, used, t)

\* The outer loop; merged is the list of members, each with its parts.
RECURSIVE MergeOuter_single_dropped(_, _, _, _, _)
MergeOuter_single_dropped(dets, i, used, merged, t) ==
    IF i > Len(dets) THEN merged
    ELSE IF i \in used
         THEN MergeOuter_single_dropped(dets, i + 1, used, merged, t)
    ELSE LET r == MergeInner(dets[i], <<i>>, dets, i + 1, used \cup {i}, t)
         IN  MergeOuter_single_dropped(dets, i + 1, r.used,
                 IF Len(r.parts) = 1 THEN merged
                 ELSE Append(merged, [region |-> r.region, parts |-> r.parts]),
                 t)

RECURSIVE MergeOuter(_, _, _, _, _)
MergeOuter(dets, i, used, merged, t) ==
    IF i > Len(dets) THEN merged
    ELSE IF i \in used THEN MergeOuter(dets, i + 1, used, merged, t)
    ELSE LET r == MergeInner(dets[i], <<i>>, dets, i + 1, used \cup {i}, t)
         IN  MergeOuter(dets, i + 1, r.used,
                        Append(merged, [region |-> r.region, parts |-> r.parts]),
                        t)

\* The members of the merge, each with the positions it was made of.
MergeMembers(dets, t) ==
    IF dets = <<>> THEN <<>>
    ELSE MergeOuter(SortDetections(dets), 1, {}, <<>>, t)

merge_overlapping_regions(dets, t) ==
    LET members == MergeMembers(dets, t)
    IN  [i \in 1..Len(members) |-> members[i].region]

(***************************************************************************)
(* Program constants of the detectors.                                     *)
(***************************************************************************)
OcrPadding == 15
ContourPadding == 5
HandwrittenPadding == 10
TemplatePadding == 10
TextLikePadding == 20
GridSize == 100
GridOverlap == 20
ConfidenceThreshold == 10
FirstPassThreshold == 2
SecondPassThreshold == 1

\* config[:10] of the six entries of self.ocr_configs.
OcrConfigPrefix ==
    <<"--oem 3 --", "--oem 3 --", "--oem 3 --",
      "--oem 3 --", "--oem 3 --", "--oem 1 --">>

\* The names preprocess_image gives its variants, in order.
VariantNames ==
    <<"original", "clahe", "otsu", "otsu_inv", "adaptive_mean",
      "adaptive_gaussian", "morph_close", "morph_open",
      "blur_0.5", "blur_1.0", "blur_1.5", "edges_dilated", "unsharp">>

(***************************************************************************)
(* x = max(0, x - padding); w = min(W - x, w + 2 * padding), same for y, h *)
(***************************************************************************)
PadClamp_unclamped(x, y, w, h, padding, W, H) ==
    [x |-> Max2(0, x - padding), y |-> Max2(0, y - padding),
     width |-> w + 2 * padding, height |-> h + 2 * padding]

PadClamp(x, y, w, h, padding, W, H) ==
    LET nx == Max2(0, x - padding)
        ny == Max2(0, y - padding)
    IN  [x |-> nx, y |-> ny,
         width |-> Min2(W - nx, w + 2 * padding),
         height |-> Min2(H - ny, h + 2 * padding)]

(***************************************************************************)
(* extract_number_regions: word-level results to detections.               *)
(***************************************************************************)
Digits == {"0", "1", "2", "3", "4", "5", "6", "7", "8", "9"}
Confusable == {"l", "I", "|", "!", "o", "O", "(", ")", "[", "]", "{", "}"}
MathSymbols == {"+", "-", "=", "*", "/", ".", ","}

has_numbers(text) ==
    \E i \in 1..Len(text) : text[i] \in Digits \cup Confusable

has_math_symbols(text) ==
    \E i \in 1..Len(text) : text[i] \in MathSymbols

OcrWordDetections_conf_strict(word, W, H) ==
    LET text == Strip(word.text)
        b == PadClamp(word.left, word.top, word.width, word.height,
                      OcrPadding, W, H)
    IN  IF word.conf <= ConfidenceThreshold \/ text = <<>> THEN <<>>
        ELSE IF ~(has_numbers(text) \/ has_math_symbols(text)) THEN <<>>
        ELSE IF b.width > 10 /\ b.height > 10
             THEN <<Det(b.x, b.y, b.width, b.height, word.conf, text,
                        NoSource)>>
             ELSE <<>>

OcrWordDetections(word, W, H) ==
    LET text == Strip(word.text)
        b == PadClamp(word.left, word.top, word.width, word.height,
                      OcrPadding, W, H)
    IN  IF word.conf < ConfidenceThreshold \/ text = <<>> THEN <<>>
        ELSE IF ~(has_numbers(text) \/ has_math_symbols(text)) THEN <<>>
        ELSE IF b.width > 10 /\ b.height > 10
             THEN <<Det(b.x, b.y, b.width, b.height, word.conf, text, NoSource)>>
             ELSE <<>>

RECURSIVE extract_number_regions(_, _, _)
extract_number_regions(words, W, H) ==
    IF words = <<>> THEN <<>>
    ELSE OcrWordDetections(Head(words), W, H)
            \o extract_number_regions(Tail(words), W, H)

\* detection['source'] = f"{img_name}_{config[:10]}"
SourceTag(config, variant) ==
    VariantNames[variant] \o "_" \o OcrConfigPrefix[config]

TagSource(dets, config, variant) ==
    [i \in 1..Len(dets) |->
        [dets[i] EXCEPT !.source = SourceTag(config, variant)]]

(***************************************************************************)
(* detect_by_contours: c = [x, y, w, h, area] of one external contour.     *)
(***************************************************************************)
ContourAccepted(c, W, H) ==
    /\ 15 < c.w /\ 5 * c.w < 4 * W
    /\ 15 < c.h /\ 5 * c.h < 4 * H
    /\ c.area > 200
    /\ c.h < 10 * c.w /\ c.w < 10 * c.h

detect_by_contours(contours, W, H) ==
    LET Keep(c) == ContourAccepted(c, W, H)
        kept == SelectSeq(contours, Keep)
    IN  [i \in 1..Len(kept) |->
            LET b == PadClamp(kept[i].x, kept[i].y, kept[i].w, kept[i].h,
                              ContourPadding, W, H)
            IN  Det(b.x, b.y, b.width, b.height, 50,
                    <<"contour_detected">>, "contour")]

(***************************************************************************)
(* detect_handwritten_numbers: c = [x, y, w, h, area, dark, std], dark the *)
(* number of pixels below 128 and std the standard deviation of the patch. *)
(***************************************************************************)
is_potential_number_region(c) ==
    /\ ~(c.w < 15 \/ c.h < 15 \/ c.w > 500 \/ c.h > 100)
    /\ ~(c.area < 100 \/ c.area > 5000)
    /\ ~(5 * c.w < c.h \/ c.w > 8 * c.h)
    /\ ~(20 * c.dark < c.w * c.h \/ 5 * c.dark > 4 * c.w * c.h)
    /\ ~(c.std < 15)

detect_handwritten_numbers(contours, W, H) ==
    LET kept == SelectSeq(contours, is_potential_number_region)
    IN  [i \in 1..Len(kept) |->
            LET b == PadClamp(kept[i].x, kept[i].y, kept[i].w, kept[i].h,
                              HandwrittenPadding, W, H)
            IN  Det(b.x, b.y, b.width, b.height, 40,
                    <<"handwritten_candidate">>, "handwritten")]

(***************************************************************************)
(* detect_by_templates: np.ones(size) has size[0] rows, so the templates   *)
(* are 30x20, 40x30 and 50x40 (width x height).  matches[i] are the match  *)
(* locations of template i; a template whose matching raises is skipped.   *)
(***************************************************************************)
TemplateSizes == <<[w |-> 30, h |-> 20], [w |-> 40, h |-> 30], [w |-> 50, h |-> 40]>>

TemplateDetections(i, pts, W, H) ==
    LET boxes == [j \in 1..Len(pts) |->
                    PadClamp(pts[j].x, pts[j].y, TemplateSizes[i].w,
                             TemplateSizes[i].h, TemplatePadding, W, H)]
        Big(b) == b.width > 20 /\ b.height > 20
        kept == SelectSeq(boxes, Big)
    IN  [j \in 1..Len(kept) |->
            Det(kept[j].x, kept[j].y, kept[j].width, kept[j].height, 30,
                <<"template_match">>, "template")]

RECURSIVE TemplatesFrom(_, _, _, _, _)
TemplatesFrom(i, matches, failing, W, H) ==
    IF i > Len(TemplateSizes) THEN <<>>
    ELSE (IF i \in failing THEN <<>>
          ELSE TemplateDetections(i, matches[i], W, H))
            \o TemplatesFrom(i + 1, matches, failing, W, H)

detect_by_templates(matches, failing, W, H) ==
    TemplatesFrom(1, matches, failing, W, H)

(***************************************************************************)
(* detect_text_like_regions: c = [x, y, w, h, area].                       *)
(***************************************************************************)
TextLikeAccepted(c) ==
    /\ c.w > 30 /\ c.h > 15
    /\ c.area > 500
    /\ c.h > 0
    /\ 2 * c.w > 3 * c.h
    /\ c.w < 15 * c.h

detect_text_like_regions(contours, W, H) ==
    LET kept == SelectSeq(contours, TextLikeAccepted)
    IN  [i \in 1..Len(kept) |->
            LET b == PadClamp(kept[i].x, kept[i].y, kept[i].w, kept[i].h,
                              TextLikePadding, W, H)
            IN  Det(b.x, b.y, b.width, b.height, 25,
                    <<"text_like_region">>, "text_fallback")]

(***************************************************************************)
(* detect_by_grid_sampling: cells start at range(0, L - 100, 100 - 20);    *)
(* stats[<<x, y>>] = [std, dark, light] of the cell at (x, y).             *)
(***************************************************************************)
RECURSIVE PyRange(_, _, _)
PyRange(start, stop, step) ==
    IF start >= stop THEN <<>>
    ELSE <<start>> \o PyRange(start + step, stop, step)

GridStarts(L) == PyRange(0, L - GridSize, GridSize - GridOverlap)

GridCells(W, H) ==
    LET xs == GridStarts(W)
        ys == GridStarts(H)
    IN  [i \in 1..(Len(xs) * Len(ys)) |->
            <<xs[((i - 1) % Len(xs)) + 1], ys[((i - 1) \div Len(xs)) + 1]>>]

CellFlagged(s) == s.std > 30 /\ s.dark > 50 /\ s.light > 50

detect_by_grid_sampling(stats, W, H) ==
    LET Flagged(cell) == CellFlagged(stats[cell])
        kept == SelectSeq(GridCells(W, H), Flagged)
    IN  [i \in 1..Len(kept) |->
            Det(kept[i][1], kept[i][2], GridSize, GridSize, 20,
                <<"grid_sampled">>, "grid_sampling")]

(***************************************************************************)
(* crop_number_region: the box clamped into the image; None when it        *)
(* collapses.                                                              *)
(***************************************************************************)
crop_number_region(d, W, H) ==
    LET x == Max2(0, Min2(d.x, W - 1))
        y == Max2(0, Min2(d.y, H - 1))
        w == Min2(d.width, W - x)
        h == Min2(d.height, H - y)
    IN  IF w <= 0 \/ h <= 0 THEN [none |-> TRUE, x |-> x, y |-> y, w |-> w, h |-> h]
        ELSE [none |-> FALSE, x |-> x, y |-> y, w |-> w, h |-> h]

(***************************************************************************)
(* preprocess_image.  An image is a term: the decoded input, or the result *)
(* of an OpenCV operation on images, which is a function of its operands   *)
(* that returns a new array.  The function assigns nothing to self and     *)
(* calls no in-place operation on its argument.                            *)
(***************************************************************************)
Cv(op, operands) == [op |-> op, of |-> operands]

\* (name, image) pairs in the order of the processed_images.append calls.
preprocess_image_otsu_inv_first(image) ==
    LET gray == Cv("cvtColor_BGR2GRAY", <<image>>)
        otsu == Cv("threshold_BINARY_OTSU", <<gray>>)
        Blur(sigma) ==
            Cv("threshold_BINARY_OTSU", <<Cv("GaussianBlur_" \o sigma, <<gray>>)>>)
        unsharp == Cv("addWeighted_1.5_-0.5",
                      <<gray, Cv("GaussianBlur_2.0", <<gray>>)>>)
    IN  << <<"original", gray>>,
           <<"clahe", Cv("CLAHE_3.0_8x8", <<gray>>)>>,
           <<"otsu_inv", Cv("threshold_BINARY_INV_OTSU", <<gray>>)>>,
           <<"otsu", otsu>>,
           <<"adaptive_mean", Cv("adaptiveThreshold_MEAN_11_2", <<gray>>)>>,
           <<"adaptive_gaussian",
             Cv("adaptiveThreshold_GAUSSIAN_11_2", <<gray>>)>>,
           <<"morph_close", Cv("morphologyEx_CLOSE_2x2", <<otsu>>)>>,
           <<"morph_open", Cv("morphologyEx_OPEN_2x2", <<otsu>>)>>,
           <<"blur_0.5", Blur("0.5")>>,
           <<"blur_1.0", Blur("1.0")>>,
           <<"blur_1.5", Blur("1.5")>>,
           <<"edges_dilated",
             Cv("dilate_3x3", <<Cv("Canny_50_150", <<gray>>)>>)>>,
           <<"unsharp", Cv("threshold_BINARY_OTSU", <<unsharp>>)>> >>

preprocess_image(image) ==
    LET gray == Cv("cvtColor_BGR2GRAY", <<image>>)
        otsu == Cv("threshold_BINARY_OTSU", <<gray>>)
        Blur(sigma) ==
            Cv("threshold_BINARY_OTSU", <<Cv("GaussianBlur_" \o sigma, <<gray>>)>>)
        unsharp == Cv("addWeighted_1.5_-0.5",
                      <<gray, Cv("GaussianBlur_2.0", <<gray>>)>>)
    IN  << <<"original", gray>>,
           <<"clahe", Cv("CLAHE_3.0_8x8", <<gray>>)>>,
           <<"otsu", otsu>>,
           <<"otsu_inv", Cv("threshold_BINARY_INV_OTSU", <<gray>>)>>,
           <<"adaptive_mean", Cv("adaptiveThreshold_MEAN_11_2", <<gray>>)>>,
           <<"adaptive_gaussian",
             Cv("adaptiveThreshold_GAUSSIAN_11_2", <<gray>>)>>,
           <<"morph_close", Cv("morphologyEx_CLOSE_2x2", <<otsu>>)>>,
           <<"morph_open", Cv("morphologyEx_OPEN_2x2", <<otsu>>)>>,
           <<"blur_0.5", Blur("0.5")>>,
           <<"blur_1.0", Blur("1.0")>>,
           <<"blur_1.5", Blur("1.5")>>,
           <<"edges_dilated",
             Cv("dilate_3x3", <<Cv("Canny_50_150", <<gray>>)>>)>>,
           <<"unsharp", Cv("threshold_BINARY_OTSU", <<unsharp>>)>> >>

(***************************************************************************)
(* Bounds and inputs of one pipeline run.                                  *)
(***************************************************************************)
ImgW == 200
ImgH == 200
MaxConfigs == 2
MaxDetections == 3

\* The run is modelled over the first two variants of VariantNames.
Variants == 1..2

Pairs == (1..MaxConfigs) \X Variants

\* Word-level results the text-recognition capability may return.
WordIn   == [text |-> <<"4", "2">>, conf |-> 90, left |-> 40, top |-> 40,
             width |-> 30, height |-> 20]
WordEdge == [text |-> <<" ", "7">>, conf |-> 60, left |-> 180, top |-> -5,
             width |-> 40, height |-> 30]
WordOut  == [text |-> <<"1">>, conf |-> 80, left |-> 250, top |-> 250,
             width |-> 20, height |-> 20]
OcrResults == {<<>>, <<WordOut, WordIn>>, <<WordEdge>>}

ContourResults ==
    {<<>>,
     <<[x |-> 80, y |-> 45, w |-> 70, h |-> 30, area |-> 1000]>>,
     <<[x |-> 170, y |-> 170, w |-> 30, h |-> 30, area |-> 500]>>,
     <<[x |-> 0, y |-> 150, w |-> 170, h |-> 20, area |-> 2000]>>}

HandwrittenResults ==
    {<<>>,
     <<[x |-> 150, y |-> 20, w |-> 30, h |-> 30, area |-> 400,
        dark |-> 200, std |-> 40]>>}

TemplateResults ==
    {<< <<>>, <<>>, <<>> >>,
     << <<[x |-> 30, y |-> 30]>>, <<>>, <<>> >>}

TextLikeResults ==
    {<<>>,
     <<[x |-> 60, y |-> 60, w |-> 80, h |-> 30, area |-> 1500]>>}

CellStats ==
    {[std |-> 0, dark |-> 0, light |-> 0],
     [std |-> 60, dark |-> 400, light |-> 400]}

(***************************************************************************)
(* State.                                                                  *)
(*   pc                 position of the run                                *)
(*   decodable          whether cv2.imread decodes the uploaded file       *)
(*   ci, vi             the OCR loops' configuration and variant           *)
(*   invoked, failed    calls of image_to_data per pair; pairs that raised *)
(*   all_detections     the raw pool                                       *)
(*   merged_detections  the canonical list; merged1 the first pass result  *)
(*   ran                the stages entered so far                          *)
(*   raised             the stage whose exception left                     *)
(*                      detect_number_regions, or "none"                   *)
(*   cropped_regions, k the output list and the crop loop's position       *)
(*   dropped            0-based positions of the canonical regions whose    *)
(*                      crop returned None or raised                        *)
(*   result             what extract_number_regions_from_image returned    *)
(*   caller_error       whether an exception reached its caller            *)
(*   ri, regions_saved, stored, processed, total_regions_found             *)
(*                      process_uploaded_image and the records it writes   *)
(***************************************************************************)
VARIABLES pc, decodable, ci, vi, invoked, failed, all_detections,
          merged_detections, merged1, ran, raised, cropped_regions, k,
          dropped,
          result, caller_error, ri, regions_saved, stored, processed,
          total_regions_found

pvars == <<pc, decodable, ci, vi, invoked, failed, all_detections,
           merged_detections, merged1, ran, raised, cropped_regions, k,
           dropped,
           result, caller_error, ri, regions_saved, stored, processed,
           total_regions_found>>

detectVars == <<ci, vi, invoked, failed, all_detections, merged_detections,
                merged1, cropped_regions, k, dropped>>
viewVars == <<result, caller_error, ri, regions_saved, stored, processed,
              total_regions_found>>

(***************************************************************************)
(* State of the merge harness, which applies merge_overlapping_regions to  *)
(* a pool and then to its own result with the same threshold.              *)
(*   pool0      the pool as handed in; pool the same list after the call   *)
(*   threshold  the overlap threshold, in tenths                           *)
(*   first, second   the two results; mstage the harness's position        *)
(*   members    the members of the first result, each with the positions   *)
(*              (in the sorted pool) of the detections it was made of      *)
(***************************************************************************)
VARIABLES pool0, pool, threshold, first, second, mstage, members

mvars == <<pool0, pool, threshold, first, second, mstage, members>>

(***************************************************************************)
(* State of the detector harness, which hands one raw candidate (a word    *)
(* of the OCR data, a contour's bounding rectangle, a template match) to   *)
(* one of the padding detectors.                                           *)
(*   detector  the detector applied; raw its candidate                     *)
(*   emitted   the detections it returned; dstage the harness's position   *)
(***************************************************************************)
VARIABLES detector, raw, emitted, dstage

dvars == <<detector, raw, emitted, dstage>>

(***************************************************************************)
(* State of the call harness, which calls one function of the extractor    *)
(* on arguments of its own and, for some functions, a second time.         *)
(*   callee    the function called; args its arguments (with the image     *)
(*             shape and the extractor's state where the function reads    *)
(*             them)                                                       *)
(*   returned  what the first call returned; again what the second did     *)
(*   cstage    the harness's position                                      *)
(***************************************************************************)
VARIABLES callee, args, returned, again, cstage

cvars == <<callee, args, returned, again, cstage>>
vars == <<pvars, mvars, dvars, cvars>>

PipelineInit ==
    /\ pc = "imread"
    /\ decodable \in BOOLEAN
    /\ ci = 1
    /\ vi = 1
    /\ invoked = [p \in Pairs |-> 0]
    /\ failed = {}
    /\ all_detections = <<>>
    /\ merged_detections = <<>>
    /\ merged1 = <<>>
    /\ ran = {}
    /\ raised = "none"
    /\ cropped_regions = <<>>
    /\ k = 1
    /\ dropped = {}
    /\ result = <<>>
    /\ caller_error = FALSE
    /\ ri = 1
    /\ regions_saved = 0
    /\ stored = <<>>
    /\ processed = FALSE
    /\ total_regions_found = 0

\* An exception leaves detect_number_regions: nothing after it runs.
Raise(stage) ==
    /\ raised' = stage
    /\ pc' = "wrapper"

\* The detectors report at most MaxDetections detections in one run.
Fits(dets) == Len(all_detections) + Len(dets) <= MaxDetections

(***************************************************************************)
(* detect_number_regions                                                   *)
(***************************************************************************)
\* image = cv2.imread(image_path); raise ValueError when it is None.
Imread ==
    /\ pc = "imread"
    /\ ran' = ran \cup {"imread"}
    /\ IF decodable
       THEN pc' = "preprocess" /\ UNCHANGED raised
       ELSE Raise("imread")
    /\ UNCHANGED <<decodable, detectVars, viewVars, mvars, dvars, cvars>>

\* processed_images = self.preprocess_image(image), outside any try.
Preprocess ==
    /\ pc = "preprocess"
    /\ ran' = ran \cup {"preprocess"}
    /\ \/ pc' = "ocr" /\ UNCHANGED raised
       \/ Raise("preprocess")
    /\ UNCHANGED <<decodable, detectVars, viewVars, mvars, dvars, cvars>>

\* Position of the two nested for loops after the current pair.
OcrAdvance ==
    IF vi + 1 \in Variants THEN ci' = ci /\ vi' = vi + 1 /\ pc' = "ocr"
    ELSE IF ci < MaxConfigs THEN ci' = ci + 1 /\ vi' = 1 /\ pc' = "ocr"
    ELSE ci' = ci /\ vi' = vi /\ pc' = "contour"

\* except Exception: print(...); continue
OcrPairFails_propagates ==
    /\ failed' = failed \cup {<<ci, vi>>}
    /\ Raise("ocr")
    /\ UNCHANGED <<ci, vi, all_detections>>

OcrPairFails ==
    /\ failed' = failed \cup {<<ci, vi>>}
    /\ OcrAdvance
    /\ UNCHANGED <<all_detections, raised>>

\* image_to_data, extract_number_regions, tagging, all_detections.extend
OcrPairOk(words) ==
    LET dets == TagSource(extract_number_regions(words, ImgW, ImgH), ci, vi)
    IN  /\ Fits(dets)
        /\ all_detections' = all_detections \o dets
        /\ OcrAdvance
        /\ UNCHANGED <<failed, raised>>

OcrPair ==
    /\ pc = "ocr"
    /\ ran' = ran \cup {"ocr"}
    /\ invoked' = [invoked EXCEPT ![<<ci, vi>>] = @ + 1]
    /\ \/ \E words \in OcrResults : OcrPairOk(words)
       \/ OcrPairFails
    /\ UNCHANGED <<decodable, merged_detections, merged1, cropped_regions, k,
                   dropped, viewVars, mvars, dvars, cvars>>

\* One detector call outside any try: it extends the pool or raises.
DetectorStep(stage, next, dets) ==
    /\ pc = stage
    /\ ran' = ran \cup {stage}
    /\ \/ /\ Fits(dets)
          /\ all_detections' = all_detections \o dets
          /\ pc' = next
          /\ UNCHANGED raised
       \/ /\ Raise(stage)
          /\ UNCHANGED all_detections
    /\ UNCHANGED <<decodable, ci, vi, invoked, failed, merged_detections,
                   merged1, cropped_regions, k, dropped, viewVars,
                   mvars, dvars, cvars>>

DetectByContours ==
    \E c \in ContourResults :
        DetectorStep("contour", "template", detect_by_contours(c, ImgW, ImgH))

DetectByTemplates ==
    \E m \in TemplateResults, failing \in SUBSET {1} :
        DetectorStep("template", "handwritten",
                     detect_by_templates(m, failing, ImgW, ImgH))

DetectHandwritten ==
    \E c \in HandwrittenResults :
        DetectorStep("handwritten", "merge1",
                     detect_handwritten_numbers(c, ImgW, ImgH))

\* if len(merged_detections) == 0:
NeedsFallback_always(merged) == TRUE

NeedsFallback_never(merged) == FALSE

NeedsFallback_few(merged) == Len(merged) <= 1

NeedsFallback(merged) == Len(merged) = 0

\* merged_detections = self.merge_overlapping_regions(all_detections, 0.2)
MergeFirst_pool_merged ==
    /\ pc = "merge1"
    /\ ran' = ran \cup {"merge1"}
    /\ merged_detections' =
           merge_overlapping_regions(all_detections, FirstPassThreshold)
    /\ merged1' = merged_detections'
    /\ all_detections' = merged_detections'
    /\ pc' = IF NeedsFallback(merged_detections') THEN "textlike" ELSE "crop"
    /\ UNCHANGED <<decodable, ci, vi, invoked, failed, raised,
                   cropped_regions, k, dropped, viewVars,
                   mvars, dvars, cvars>>

MergeFirst ==
    /\ pc = "merge1"
    /\ ran' = ran \cup {"merge1"}
    /\ merged_detections' =
           merge_overlapping_regions(all_detections, FirstPassThreshold)
    /\ merged1' = merged_detections'
    /\ all_detections' = SortDetections(all_detections)
    /\ pc' = IF NeedsFallback(merged_detections') THEN "textlike" ELSE "crop"
    /\ UNCHANGED <<decodable, ci, vi, invoked, failed, raised,
                   cropped_regions, k, dropped, viewVars,
                   mvars, dvars, cvars>>

DetectTextLike ==
    \E c \in TextLikeResults :
        DetectorStep("textlike", "grid", detect_text_like_regions(c, ImgW, ImgH))

DetectByGridSampling ==
    \E stats \in [Range(GridCells(ImgW, ImgH)) -> CellStats] :
        DetectorStep("grid", "merge2",
                     detect_by_grid_sampling(stats, ImgW, ImgH))

\* merged_detections = self.merge_overlapping_regions(all_detections, 0.1)
MergeSecond_first_threshold ==
    /\ pc = "merge2"
    /\ ran' = ran \cup {"merge2"}
    /\ merged_detections' =
           merge_overlapping_regions(all_detections, FirstPassThreshold)
    /\ all_detections' = SortDetections(all_detections)
    /\ pc' = "crop"
    /\ UNCHANGED <<decodable, ci, vi, invoked, failed, merged1, raised,
                   cropped_regions, k, dropped, viewVars,
                   mvars, dvars, cvars>>

MergeSecond ==
    /\ pc = "merge2"
    /\ ran' = ran \cup {"merge2"}
    /\ merged_detections' =
           merge_overlapping_regions(all_detections, SecondPassThreshold)
    /\ all_detections' = SortDetections(all_detections)
    /\ pc' = "crop"
    /\ UNCHANGED <<decodable, ci, vi, invoked, failed, merged1, raised,
                   cropped_regions, k, dropped, viewVars,
                   mvars, dvars, cvars>>

\* cropped_regions.append({'image', 'bbox', 'index': i, 'confidence'})
CropOk_renumbered(c, d) ==
    /\ cropped_regions' = Append(cropped_regions,
           [image |-> <<c.w, c.h>>, bbox |-> d,
            index |-> Len(cropped_regions), confidence |-> d.confidence])
    /\ k' = k + 1
    /\ UNCHANGED <<dropped, pc, raised>>

CropOk(c, d) ==
    /\ cropped_regions' = Append(cropped_regions,
           [image |-> <<c.w, c.h>>, bbox |-> d, index |-> k - 1,
            confidence |-> d.confidence])
    /\ k' = k + 1
    /\ UNCHANGED <<dropped, pc, raised>>

\* except Exception as e: print(...); continue
CropRaises_propagates ==
    /\ dropped' = dropped \cup {k - 1}
    /\ Raise("crop")
    /\ UNCHANGED <<cropped_regions, k>>

CropRaises ==
    /\ dropped' = dropped \cup {k - 1}
    /\ k' = k + 1
    /\ UNCHANGED <<cropped_regions, pc, raised>>

\* crop_number_region returned None: nothing is appended.
CropNone ==
    /\ dropped' = dropped \cup {k - 1}
    /\ k' = k + 1
    /\ UNCHANGED <<cropped_regions, pc, raised>>

\* One iteration of the crop loop.
CropRegion ==
    /\ pc = "crop"
    /\ k <= Len(merged_detections)
    /\ ran' = ran \cup {"crop"}
    /\ LET d == merged_detections[k]
           c == crop_number_region(d, ImgW, ImgH)
       IN  \/ ~c.none /\ CropOk(c, d)
           \/ c.none /\ CropNone
           \/ ~c.none /\ CropRaises
    /\ UNCHANGED <<decodable, ci, vi, invoked, failed, all_detections,
                   merged_detections, merged1, viewVars, mvars, dvars, cvars>>

\* return cropped_regions
DetectReturn ==
    /\ pc = "crop"
    /\ k > Len(merged_detections)
    /\ ran' = ran \cup {"crop"}
    /\ pc' = "wrapper"
    /\ UNCHANGED <<decodable, detectVars, raised, viewVars, mvars, dvars, cvars>>

(***************************************************************************)
(* extract_number_regions_from_image: except Exception: return []          *)
(***************************************************************************)
ExtractReturn ==
    /\ pc = "wrapper"
    /\ result' = IF raised = "none" THEN cropped_regions ELSE <<>>
    /\ caller_error' = FALSE
    /\ pc' = "save"
    /\ UNCHANGED <<decodable, detectVars, ran, raised, ri, regions_saved,
                   stored, processed, total_regions_found, mvars, dvars, cvars>>

(***************************************************************************)
(* process_uploaded_image                                                  *)
(***************************************************************************)
\* One iteration of the save loop; a region whose saving raises is skipped.
SaveRegion ==
    /\ pc = "save"
    /\ ri <= Len(result)
    /\ \/ /\ stored' = Append(stored,
                  [region_index |-> result[ri].index,
                   bbox_x |-> result[ri].bbox.x,
                   bbox_y |-> result[ri].bbox.y,
                   bbox_width |-> result[ri].bbox.width,
                   bbox_height |-> result[ri].bbox.height,
                   confidence_score |-> result[ri].confidence])
          /\ regions_saved' = regions_saved + 1
       \/ UNCHANGED <<stored, regions_saved>>
    /\ ri' = ri + 1
    /\ UNCHANGED <<pc, decodable, detectVars, ran, raised, result,
                   caller_error, processed, total_regions_found, mvars, dvars, cvars>>

\* uploaded_image.total_regions_found = regions_saved; processed = True
UpdateParent_counts_returned ==
    /\ pc = "save"
    /\ ri > Len(result)
    /\ total_regions_found' = Len(result)
    /\ processed' = TRUE
    /\ pc' = "done"
    /\ UNCHANGED <<decodable, detectVars, ran, raised, result, caller_error,
                   ri, regions_saved, stored, mvars, dvars, cvars>>

UpdateParent ==
    /\ pc = "save"
    /\ ri > Len(result)
    /\ total_regions_found' = regions_saved
    /\ processed' = TRUE
    /\ pc' = "done"
    /\ UNCHANGED <<decodable, detectVars, ran, raised, result, caller_error,
                   ri, regions_saved, stored, mvars, dvars, cvars>>

\* uploaded_image.save() raises: post's handler sets processed = False on the
\* object that already carries the new count and saves it, which may fail
\* as well.  No transaction surrounds the writes: the rows stay.
UpdateParentFails ==
    /\ pc = "save"
    /\ ri > Len(result)
    /\ \/ total_regions_found' = regions_saved
       \/ UNCHANGED total_regions_found
    /\ pc' = "error"
    /\ UNCHANGED <<decodable, detectVars, ran, raised, result, caller_error,
                   ri, regions_saved, stored, processed, mvars, dvars, cvars>>

\* The request dies between two writes (worker killed, database connection
\* lost): the writes are autocommitted one by one, so what was written stays.
AbortWrites ==
    /\ pc = "save"
    /\ pc' = "aborted"
    /\ UNCHANGED <<decodable, detectVars, ran, raised, viewVars, mvars, dvars, cvars>>

HarnessIdle ==
    /\ pool0 = <<>>
    /\ pool = <<>>
    /\ threshold = FirstPassThreshold
    /\ first = <<>>
    /\ second = <<>>
    /\ mstage = "idle"
    /\ members = <<>>

DetectIdle ==
    /\ detector = "none"
    /\ raw = <<>>
    /\ emitted = <<>>
    /\ dstage = "idle"

CallIdle ==
    /\ callee = "none"
    /\ args = <<>>
    /\ returned = <<>>
    /\ again = <<>>
    /\ cstage = "idle"

Init == PipelineInit /\ HarnessIdle /\ DetectIdle /\ CallIdle

Next ==
    \/ Imread
    \/ Preprocess
    \/ OcrPair
    \/ DetectByContours
    \/ DetectByTemplates
    \/ DetectHandwritten
    \/ MergeFirst
    \/ DetectTextLike
    \/ DetectByGridSampling
    \/ MergeSecond
    \/ CropRegion
    \/ DetectReturn
    \/ ExtractReturn
    \/ SaveRegion
    \/ UpdateParent
    \/ UpdateParentFails
    \/ AbortWrites

Spec == Init /\ [][Next]_vars

(***************************************************************************)
(* The merge harness: pools drawn from a small grid of boxes.              *)
(***************************************************************************)
PoolXs == {0, 30}
PoolYs == {0, 25}
PoolSizes == {<<30, 30>>, <<30, 60>>}
PoolConfs == {30, 50}
Thresholds == {FirstPassThreshold, SecondPassThreshold}

PoolDets ==
    {Det(x, y, s[1], s[2], c, <<"t">>, "contour") :
        x \in PoolXs, y \in PoolYs, s \in PoolSizes, c \in PoolConfs}

SeqsUpTo(S, n) == UNION {[1..j -> S] : j \in 0..n}

\* The i-th detection of a pool carries the text "i", so that the texts of
\* a pool tell its detections apart.
Labelled(s) == [i \in 1..Len(s) |-> [s[i] EXCEPT !.text = <<ToString(i)>>]]

MergeInit ==
    /\ PipelineInit
    /\ DetectIdle
    /\ CallIdle
    /\ decodable = TRUE
    /\ \E s \in SeqsUpTo(PoolDets, MaxPool) : pool0 = Labelled(s)
    /\ pool = pool0
    /\ threshold \in Thresholds
    /\ first = <<>>
    /\ second = <<>>
    /\ mstage = "input"
    /\ members = <<>>

\* merge_overlapping_regions(pool, t): the pool is sorted in place.
MergeOnce ==
    /\ mstage = "input"
    /\ first' = merge_overlapping_regions(pool, threshold)
    /\ members' = MergeMembers(pool, threshold)
    /\ pool' = SortDetections(pool)
    /\ mstage' = "merged"
    /\ UNCHANGED <<pool0, threshold, second, pvars, dvars, cvars>>

\* merge_overlapping_regions(first, t) on the canonical output.
MergeAgain ==
    /\ mstage = "merged"
    /\ second' = merge_overlapping_regions(first, threshold)
    /\ mstage' = "remerged"
    /\ UNCHANGED <<pool0, pool, threshold, first, members, pvars, dvars, cvars>>

MergeNext == MergeOnce \/ MergeAgain

MergeSpec == MergeInit /\ [][MergeNext]_vars

(***************************************************************************)
(* The detector harness: one raw candidate handed to one padding detector  *)
(* on an image of ImgW x ImgH.                                             *)
(***************************************************************************)
WordTexts ==
    {<<"4">>, <<"O">>, <<"+">>, <<"a">>, <<>>, <<" ">>, <<"a", "7", " ">>}
WordConfs == {ConfidenceThreshold - 1, ConfidenceThreshold,
              ConfidenceThreshold + 1}
WordLefts == {0, 5, 40, ImgW + 4, ImgW + 5}
WordTops == {0, 40, ImgH + 4, ImgH + 5}

Words ==
    {[text |-> t, conf |-> c, left |-> x, top |-> y, width |-> 30,
      height |-> 20] :
        t \in WordTexts, c \in WordConfs, x \in WordLefts, y \in WordTops}

ContourShapes == {[w |-> 40, h |-> 30, area |-> 600],
                  [w |-> 16, h |-> 16, area |-> 201],
                  [w |-> 15, h |-> 30, area |-> 400]}

Contours ==
    {[x |-> x, y |-> y, w |-> sh.w, h |-> sh.h, area |-> sh.area] :
        x \in {0, 3, 60, ImgW - 45}, y \in {0, 60, ImgH - 35},
        sh \in ContourShapes}

HandwrittenContours ==
    {[x |-> x, y |-> y, w |-> w, h |-> 30, area |-> 400, dark |-> 200,
      std |-> 40] :
        x \in {0, 4, 60, ImgW - 35}, y \in {0, 60, ImgH - 35},
        w \in {14, 30}}

TemplateMatches ==
    {[x |-> x, y |-> y, t |-> t] :
        x \in {0, 5, 60, ImgW - 50}, y \in {0, 60, ImgH - 40},
        t \in 1..Len(TemplateSizes)}

TextLikeContours ==
    {[x |-> x, y |-> y, w |-> w, h |-> 30, area |-> 1500] :
        x \in {0, 10, 60, ImgW - 90}, y \in {0, 60, ImgH - 40},
        w \in {30, 80}}

DetectInit ==
    /\ PipelineInit
    /\ decodable = TRUE
    /\ HarnessIdle
    /\ CallIdle
    /\ \/ detector = "ocr" /\ raw \in Words
       \/ detector = "contour" /\ raw \in Contours
       \/ detector = "handwritten" /\ raw \in HandwrittenContours
       \/ detector = "template" /\ raw \in TemplateMatches
       \/ detector = "textlike" /\ raw \in TextLikeContours
    /\ emitted = <<>>
    /\ dstage = "input"

\* The harness's step for a detector that returned dets.
Emit(name, dets) ==
    /\ dstage = "input"
    /\ detector = name
    /\ emitted' = dets
    /\ dstage' = "emitted"
    /\ UNCHANGED <<detector, raw, pvars, mvars, cvars>>

ApplyExtractNumberRegions ==
    Emit("ocr", extract_number_regions(<<raw>>, ImgW, ImgH))

ApplyDetectByContours ==
    Emit("contour", detect_by_contours(<<raw>>, ImgW, ImgH))

ApplyDetectHandwritten ==
    Emit("handwritten", detect_handwritten_numbers(<<raw>>, ImgW, ImgH))

ApplyDetectByTemplates ==
    Emit("template",
         detect_by_templates(
             [i \in 1..Len(TemplateSizes) |->
                 IF i = raw.t THEN <<[x |-> raw.x, y |-> raw.y]>> ELSE <<>>],
             {}, ImgW, ImgH))

ApplyDetectTextLike ==
    Emit("textlike", detect_text_like_regions(<<raw>>, ImgW, ImgH))

DetectNext ==
    \/ ApplyExtractNumberRegions
    \/ ApplyDetectByContours
    \/ ApplyDetectHandwritten
    \/ ApplyDetectByTemplates
    \/ ApplyDetectTextLike

DetectSpec == DetectInit /\ [][DetectNext]_vars

(***************************************************************************)
(* The call harness.                                                       *)
(***************************************************************************)
\* Decoded images, told apart by their content, each with a shape.
Images ==
    {Cv("imread_" \o n, <<>>) : n \in {"blank", "digits", "photo", "noise"}}

PreprocessArgs ==
    {[self |-> [ocr_configs |-> OcrConfigPrefix], image |-> img] :
        img \in Images}

\* Patches at and next to every bound of is_potential_number_region; dark
\* is the number of pixels below 128, a share of the patch in percent.
RegionArgs ==
    {[w |-> w, h |-> h, area |-> a, dark |-> (w * h * p) \div 100,
      std |-> s] :
        w \in {14, 15, 30, 120, 121, 500, 501}, h \in {14, 15, 75, 76, 100, 101},
        a \in {99, 100, 400, 5000, 5001}, p \in {4, 20, 40, 80, 81},
        s \in {14, 15, 16, 40}}

\* cv2.matchTemplate raises when the template does not fit into the image.
TemplateFits(i, W, H) == TemplateSizes[i].w <= W /\ TemplateSizes[i].h <= H

\* One match of one fitting template, in images down to the height of the
\* lowest template; a match lies where the template is inside the image.
TemplateArgs ==
    {[matches |-> [i \in 1..Len(TemplateSizes) |->
                      IF i = p[3] THEN <<[x |-> p[4], y |-> p[5]]>>
                      ELSE <<>>],
      failing |-> {i \in 1..Len(TemplateSizes) : ~TemplateFits(i, p[1], p[2])},
      W |-> p[1], H |-> p[2]] :
        p \in {q \in {30, 31, 60, 90} \X {20, 21, 30, 40, 41, 90}
                      \X (1..Len(TemplateSizes)) \X {0, 1, 10, 11, 30, 40}
                      \X {0, 1, 10, 11, 21, 50} :
                  /\ TemplateFits(q[3], q[1], q[2])
                  /\ q[4] + TemplateSizes[q[3]].w <= q[1]
                  /\ q[5] + TemplateSizes[q[3]].h <= q[2]}}

\* Images of every size around the cell size, each cell of an image with
\* the same statistics, at and next to the bounds of the contrast test.
GridShapes == {80, 100, 101, 150, 180, 181, 200, 260}

GridArgs ==
    {[stats |-> [c \in Range(GridCells(W, H)) |-> s], W |-> W, H |-> H] :
        W \in GridShapes, H \in GridShapes,
        s \in {[std |-> sd, dark |-> d, light |-> l] :
                  sd \in {30, 31}, d \in {49, 50, 51}, l \in {49, 50, 51}}}

\* Boxes with positive, zero and negative widths and heights.
OverlapBoxes ==
    {[x |-> x, y |-> y, width |-> w, height |-> h] :
        x \in {0, 5}, y \in {0, 5}, w \in {-10, 0, 5, 10, 20},
        h \in {-10, 0, 10}}

OverlapArgs ==
    {[region1 |-> a, region2 |-> b, threshold |-> t] :
        a \in OverlapBoxes, b \in OverlapBoxes, t \in {1, 2, 3}}

CallInit ==
    /\ PipelineInit
    /\ decodable = TRUE
    /\ HarnessIdle
    /\ DetectIdle
    /\ \/ callee = "preprocess_image" /\ args \in PreprocessArgs
       \/ callee = "is_potential_number_region" /\ args \in RegionArgs
       \/ callee = "detect_by_templates" /\ args \in TemplateArgs
       \/ callee = "detect_by_grid_sampling" /\ args \in GridArgs
       \/ callee = "regions_overlap" /\ args \in OverlapArgs
    /\ returned = <<>>
    /\ again = <<>>
    /\ cstage = "input"

\* The first call of the harness: its arguments stay as they are.
Call(name, value) ==
    /\ cstage = "input"
    /\ callee = name
    /\ returned' = value
    /\ cstage' = "returned"
    /\ UNCHANGED <<callee, args, again, pvars, mvars, dvars>>

\* The second call, for the functions the harness calls twice.
CallAgain(name, value) ==
    /\ cstage = "returned"
    /\ callee = name
    /\ again' = value
    /\ cstage' = "again"
    /\ UNCHANGED <<callee, args, returned, pvars, mvars, dvars>>

CallPreprocessImage ==
    Call("preprocess_image", preprocess_image(args.image))

CallPreprocessImageAgain ==
    CallAgain("preprocess_image", preprocess_image(args.image))

CallIsPotentialNumberRegion ==
    Call("is_potential_number_region", is_potential_number_region(args))

CallDetectByTemplates ==
    Call("detect_by_templates",
         detect_by_templates(args.matches, args.failing, args.W, args.H))

CallDetectByGridSampling ==
    Call("detect_by_grid_sampling",
         detect_by_grid_sampling(args.stats, args.W, args.H))

CallRegionsOverlap ==
    Call("regions_overlap",
         regions_overlap_call(args.region1, args.region2, args.threshold))

\* The same call with the two regions exchanged.
CallRegionsOverlapSwapped ==
    CallAgain("regions_overlap",
              regions_overlap_call(args.region2, args.region1, args.threshold))

CallNext ==
    \/ CallPreprocessImage
    \/ CallPreprocessImageAgain
    \/ CallIsPotentialNumberRegion
    \/ CallDetectByTemplates
    \/ CallDetectByGridSampling
    \/ CallRegionsOverlap
    \/ CallRegionsOverlapSwapped

CallSpec == CallInit /\ [][CallNext]_vars

(***************************************************************************)
(* Properties of the pipeline run (Spec).                                  *)
(***************************************************************************)
InImage(b) ==
    /\ b.x >= 0
    /\ b.y >= 0
    /\ b.x + b.width <= ImgW
    /\ b.y + b.height <= ImgH

OcrSources == {SourceTag(p[1], p[2]) : p \in Pairs}

Returned == pc \in {"save", "done", "error", "aborted"}

\* C1: every region detect_number_regions returns has its bbox inside the
\* image: x >= 0, y >= 0, x + width <= W, y + height <= H.
C1_BboxInsideImage ==
    \A i \in 1..Len(cropped_regions) : InImage(cropped_regions[i].bbox)

\* A returned region merged from several detections whose box was clamped
\* at the right edge of the image.
C1_Witness ==
    /\ Returned
    /\ \E i \in 1..Len(result) :
          /\ result[i].bbox.source = NoSource
          /\ result[i].bbox.x + result[i].bbox.width = ImgW

\* C4: the text-like and grid-sampling detectors and the second merge run
\* only after a first merge that returned an empty list, and after an empty
\* first merge the text-like detector is the next stage, followed by the
\* grid-sampling detector and the second merge when it returns.
C4_FallbackIffFirstMergeEmpty ==
    /\ (ran \cap {"textlike", "grid", "merge2"} # {})
          => ("merge1" \in ran /\ merged1 = <<>>)
    /\ ("merge1" \in ran /\ merged1 # <<>>)
          => (ran \cap {"textlike", "grid", "merge2"} = {})
    /\ ("merge1" \in ran /\ merged1 = <<>> /\ pc # "textlike")
          => "textlike" \in ran
    /\ ("merge1" \in ran /\ merged1 = <<>> /\ raised = "none"
            /\ pc \notin {"textlike", "grid", "merge2"})
          => {"textlike", "grid", "merge2"} \subseteq ran

\* A finished run whose first merge was empty and whose fallback detectors
\* found regions.
C4_Witness ==
    /\ pc = "done"
    /\ merged1 = <<>>
    /\ {"textlike", "grid", "merge2"} \subseteq ran
    /\ result # <<>>

\* C7: when no detector raised and none of them, fallbacks included, found
\* anything, the first merge is empty, the fallbacks and the second merge
\* run, and the run returns an empty list to the caller.
C7_NothingFoundIsEmptyResult ==
    (raised = "none" /\ all_detections = <<>> /\ pc \in {"crop", "wrapper", "save", "done"})
        => /\ {"merge1", "textlike", "grid", "merge2"} \subseteq ran
           /\ merged1 = <<>>
           /\ merged_detections = <<>>
           /\ cropped_regions = <<>>
           /\ result = <<>>
           /\ ~caller_error

\* A decodable image in which nothing was found, processed to the end.
C7_Witness ==
    /\ pc = "done"
    /\ decodable
    /\ raised = "none"
    /\ all_detections = <<>>
    /\ "merge2" \in ran
    /\ result = <<>>

\* C8: an undecodable image is surfaced to the caller of
\* extract_number_regions_from_image as an error, and the upload is never
\* marked processed.
C8_UndecodableSurfaced ==
    (~decodable /\ Returned) => (caller_error /\ ~processed)

\* C9: each (configuration, variant) pair is invoked at most once and, once
\* the loops are over, exactly once; a failing invocation leaves the pool as
\* it was, raises nothing out of the run and moves on to the next pair or
\* to the contour detector.
C9_OcrFailureIsolated ==
    /\ [](/\ \A p \in Pairs : invoked[p] <= 1
          /\ failed \subseteq {p \in Pairs : invoked[p] = 1}
          /\ (pc \notin {"imread", "preprocess", "ocr"} /\ "ocr" \in ran)
                => \A p \in Pairs : invoked[p] = 1)
    /\ [][failed' # failed =>
            /\ all_detections' = all_detections
            /\ raised' = "none"
            /\ pc' \in {"ocr", "contour"}]_vars

\* A finished run in which some pair failed, another pair's detection is in
\* the pool and regions were returned.
C9_Witness ==
    /\ pc = "done"
    /\ failed # {}
    /\ \E i \in 1..Len(all_detections) : all_detections[i].source \in OcrSources
    /\ "handwritten" \in ran
    /\ result # <<>>

\* C10: when preprocessing or one detector raises, the run still goes on to
\* merge and crop the detections the other detectors produced.
C10_DetectorFailureIsolated ==
    (Returned /\ all_detections # <<>>
        /\ raised \in {"preprocess", "contour", "template",
                        "handwritten", "textlike", "grid"})
        => /\ merged_detections # <<>>
           /\ "crop" \in ran

\* The 1-based canonical positions already visited by the crop loop whose
\* region was not dropped, and the n-th of them.
KeptPositions == {i \in 1..(k - 1) : (i - 1) \notin dropped}

NthKept(n) ==
    CHOOSE p \in KeptPositions :
        Cardinality({q \in KeptPositions : q <= p}) = n

\* The box has no positive width or height left once clamped to the image.
Collapsed(b) ==
    \/ Min2(b.width, ImgW - Max2(0, Min2(b.x, ImgW - 1))) <= 0
    \/ Min2(b.height, ImgH - Max2(0, Min2(b.y, ImgH - 1))) <= 0

\* C11: a canonical region that collapses when clamped, or whose cropping
\* raises, is left out of the output; the other canonical regions appear in
\* the output in their canonical order; the run does not fail and returns
\* the output once the whole canonical list has been visited.
C11_DroppedRegionsSkipped ==
    /\ "crop" \in ran => raised = "none"
    /\ dropped \subseteq 0..(k - 2)
    /\ \A i \in 1..(k - 1) :
          Collapsed(merged_detections[i]) => (i - 1) \in dropped
    /\ Len(cropped_regions) = Cardinality(KeptPositions)
    /\ \A n \in 1..Len(cropped_regions) :
          cropped_regions[n].bbox = merged_detections[NthKept(n)]
    /\ (Returned /\ "crop" \in ran)
          => /\ k = Len(merged_detections) + 1
             /\ result = cropped_regions
             /\ ~caller_error

\* A finished run whose first canonical region was dropped and in which two
\* later regions were returned.
C11_Witness ==
    /\ pc = "done"
    /\ dropped = {0}
    /\ Len(merged_detections) = 3
    /\ Len(result) = 2
    /\ processed

\* C12: the index of an output region is the 0-based position of its region
\* in the canonical list; the indices are strictly increasing, hence
\* distinct, and dropped positions are not reused.
C12_IndexIsCanonicalPosition ==
    /\ \A n \in 1..Len(cropped_regions) :
          /\ cropped_regions[n].index \in 0..(Len(merged_detections) - 1)
          /\ cropped_regions[n].index \notin dropped
          /\ merged_detections[cropped_regions[n].index + 1]
                 = cropped_regions[n].bbox
    /\ \A m, n \in 1..Len(cropped_regions) :
          m < n => cropped_regions[m].index < cropped_regions[n].index

\* A finished run in which the middle one of three canonical regions was
\* dropped: the indices returned are 0 and 2.
C12_Witness ==
    /\ pc = "done"
    /\ dropped = {1}
    /\ Len(result) = 2
    /\ result[1].index = 0
    /\ result[2].index = 2

\* C16: the source tag identifies the (configuration, variant) pair: the
\* detections a pair adds to the pool carry a tag that no detection already
\* in the pool, which all come from other pairs, carries.
C16_SourceTagIdentifiesPair ==
    [][(pc = "ocr" /\ Len(all_detections') > Len(all_detections))
          => \A i \in 1..Len(all_detections) :
               \A j \in (Len(all_detections) + 1)..Len(all_detections') :
                   all_detections[i].source # all_detections'[j].source]_vars

\* The sources the two fallback detectors give their detections, and the
\* detections of a pool that carry one of them.
FallbackSources == {"text_fallback", "grid_sampling"}

FallbackOnly(dets) ==
    LET IsFallback(d) == d.source \in FallbackSources
    IN  SelectSeq(dets, IsFallback)

\* A fallback stage is about to run or has run.
FallbackReached ==
    \/ pc \in {"textlike", "grid", "merge2"}
    \/ ran \cap {"textlike", "grid", "merge2"} # {}

\* Overlap thresholds, in tenths, from 0 to 1.
AnyThresholds == {0, 1, 2, 3, 5, 10}

\* C19: merging a non-empty pool gives a non-empty list, whatever the
\* threshold; hence the fallback stages and the second merge are reached
\* only when the primary detectors put nothing in the pool.
C19_NonEmptyPoolNonEmptyMerge ==
    /\ (pc \in {"merge1", "merge2"} /\ all_detections # <<>>)
          => \A t \in AnyThresholds :
                 merge_overlapping_regions(all_detections, t) # <<>>
    /\ ("merge1" \in ran /\ ~FallbackReached /\ all_detections # <<>>)
          => (merged1 # <<>> /\ merged_detections # <<>>)
    /\ ("merge2" \in ran /\ all_detections # <<>>)
          => merged_detections # <<>>
    /\ FallbackReached => FallbackOnly(all_detections) = all_detections

\* A finished run whose second merge was handed two fallback detections
\* and merged them into one region.
C19_Witness ==
    /\ pc = "done"
    /\ "merge2" \in ran
    /\ Len(all_detections) = 2
    /\ Len(merged_detections) = 1
    /\ result # <<>>

\* C20: when the second merge runs, merging the whole pool at 0.1 gives the
\* list that merging the fallback detections alone at 0.1 gives, and that
\* list is the canonical list of the run.
C20_SecondMergeIsFallbackMerge ==
    /\ pc = "merge2"
          => merge_overlapping_regions(all_detections, SecondPassThreshold)
                = merge_overlapping_regions(FallbackOnly(all_detections),
                                            SecondPassThreshold)
    /\ "merge2" \in ran
          => merged_detections
                = merge_overlapping_regions(FallbackOnly(all_detections),
                                            SecondPassThreshold)

\* A finished run whose second merge was handed detections of both fallback
\* detectors.
C20_Witness ==
    /\ pc = "done"
    /\ "merge2" \in ran
    /\ \E i, j \in 1..Len(all_detections) :
          /\ all_detections[i].source = "text_fallback"
          /\ all_detections[j].source = "grid_sampling"
    /\ merged_detections # <<>>

\* The sources the primary detectors give their detections.
PrimarySources == OcrSources \cup {"contour", "template", "handwritten"}

\* s is an initial part of t.
IsPrefix(s, t) == Len(s) <= Len(t) /\ SubSeq(t, 1, Len(s)) = s

\* C21: the first merge runs once, after the four primary detectors, with
\* threshold 0.2 on a pool that holds their detections only; the second
\* merge runs once, only after an empty first result and after both fallback
\* detectors, which only extend the pool, with threshold 0.1 on the whole
\* pool; the cropper runs after a merge and takes its regions from the
\* result of the last merge performed.
C21_MergerInvocations ==
    /\ [](/\ "merge2" \in ran => ("merge1" \in ran /\ merged1 = <<>>)
          /\ "crop" \in ran => "merge1" \in ran
          /\ (pc = "crop" /\ "merge2" \notin ran)
                => merged_detections = merged1
          /\ \A n \in 1..Len(cropped_regions) :
                \E i \in 1..Len(merged_detections) :
                    cropped_regions[n].bbox = merged_detections[i])
    /\ [][(pc = "merge1" /\ pc' # pc)
            => /\ ran \cap {"merge1", "textlike", "grid", "merge2"} = {}
               /\ {"ocr", "contour", "template", "handwritten"}
                      \subseteq ran
               /\ \A i \in 1..Len(all_detections) :
                      all_detections[i].source \in PrimarySources
               /\ merged_detections'
                      = merge_overlapping_regions(all_detections, 2)
               /\ merged1' = merged_detections']_vars
    /\ [][(pc \in {"textlike", "grid"} /\ pc' # pc /\ raised' = "none")
            => IsPrefix(all_detections, all_detections')]_vars
    /\ [][(pc = "merge2" /\ pc' # pc)
            => /\ "merge1" \in ran
               /\ "merge2" \notin ran
               /\ merged_detections = <<>>
               /\ {"textlike", "grid"} \subseteq ran
               /\ merged_detections'
                      = merge_overlapping_regions(all_detections, 1)
               /\ pc' = "crop"]_vars

\* A finished run whose second merge joined two neighbouring grid cells,
\* which overlap by 0.2 of their area: more than 0.1 and not more than 0.2.
C21_Witness ==
    /\ pc = "done"
    /\ "merge2" \in ran
    /\ Len(all_detections) = 2
    /\ \A i \in 1..2 : all_detections[i].source = "grid_sampling"
    /\ Len(merged_detections) = 1
    /\ Len(merge_overlapping_regions(all_detections, 2)) = 2

\* Sequences a and b hold the same detections, each as often in b as in a.
SameDetections(a, b) ==
    /\ Len(a) = Len(b)
    /\ \A d \in Range(a) \cup Range(b) :
          Cardinality({i \in 1..Len(a) : a[i] = d}) =
              Cardinality({i \in 1..Len(b) : b[i] = d})

\* C28: a merge leaves every detection of the pool unchanged in all its
\* fields and neither adds nor removes one; it only reorders the pool, so
\* the pool after the first pass holds exactly the detections collected
\* before it.
C28_MergeOnlyReordersPool ==
    [][(pc = "merge1" \/ pc = "merge2") =>
          SameDetections(all_detections, all_detections')]_vars

\* After the first merge the pool holds a handwritten candidate ahead of a
\* template match, which was collected before it, and two detections were
\* merged into one.
C28_Witness ==
    /\ "merge1" \in ran
    /\ Len(merged_detections) < Len(all_detections)
    /\ \E i, j \in 1..Len(all_detections) :
          /\ i < j
          /\ all_detections[i].source = "handwritten"
          /\ all_detections[j].source = "template"

\* C30: whenever process_uploaded_image returns normally, the parent is
\* marked processed and its total_regions_found is the number of rows
\* stored in this run, whichever regions failed to be encoded or saved.
C30_CountIsRowsStored ==
    pc = "done" => /\ processed
                   /\ total_regions_found = Len(stored)

\* A normal return after the saving of some, but not all, of the returned
\* regions failed.
C30_Witness ==
    /\ pc = "done"
    /\ Len(result) >= 2
    /\ Len(stored) >= 1
    /\ Len(stored) < Len(result)
    /\ stored[1].region_index # result[1].index

\* process_uploaded_image has ended: normally, by the failure of the parent's
\* save, or by an abort during the writes.
Ended == pc \in {"done", "error", "aborted"}

\* C13: once process_uploaded_image has ended, either every discovered
\* region is stored and the parent carries their count and is marked
\* processed, or no region is stored and the parent is as it was.
C13_PersistAtomic ==
    Ended =>
        \/ /\ Len(stored) = Len(result)
           /\ total_regions_found = Len(result)
           /\ processed
        \/ /\ stored = <<>>
           /\ total_regions_found = 0
           /\ ~processed

(***************************************************************************)
(* Properties of the padding detectors (DetectSpec).                       *)
(***************************************************************************)
\* The rectangle (x, y, w, h) grown by p on each of its four sides and
\* intersected with the image rectangle.
GrownInImage(x, y, w, h, p) ==
    LET x1 == Max2(0, x - p)
        y1 == Max2(0, y - p)
        x2 == Min2(ImgW, x + w + p)
        y2 == Min2(ImgH, y + h + p)
    IN  [x |-> x1, y |-> y1, width |-> x2 - x1, height |-> y2 - y1]

StatedPadding ==
    [ocr |-> 15, contour |-> 5, handwritten |-> 10, template |-> 10,
     textlike |-> 20]

\* The raw box of the harness's candidate.
RawBox ==
    CASE detector = "ocr" ->
             [x |-> raw.left, y |-> raw.top, w |-> raw.width,
              h |-> raw.height]
      [] detector = "template" ->
             [x |-> raw.x, y |-> raw.y, w |-> TemplateSizes[raw.t].w,
              h |-> TemplateSizes[raw.t].h]
      [] OTHER -> [x |-> raw.x, y |-> raw.y, w |-> raw.w, h |-> raw.h]

StatedBox ==
    GrownInImage(RawBox.x, RawBox.y, RawBox.w, RawBox.h,
                 StatedPadding[detector])

\* The text contains a digit, a character of the digit-confusable set or
\* one of the arithmetic/punctuation symbols.
NumericLikely(text) ==
    \E i \in 1..Len(text) :
        text[i] \in Digits \cup Confusable \cup MathSymbols

WordKept ==
    /\ raw.conf >= 10
    /\ NumericLikely(raw.text)
    /\ StatedBox.width > 10
    /\ StatedBox.height > 10

\* C14: a word of the OCR data yields a detection if and only if its
\* confidence is >= 10, its text is numeric-likely and its padded, clamped
\* box is wider and higher than 10; confidence exactly 10 is kept, a padded
\* width or height of exactly 10 is discarded.
C14_WordKeptIff ==
    (dstage = "emitted" /\ detector = "ocr")
        => /\ Len(emitted) = (IF WordKept THEN 1 ELSE 0)
           /\ (raw.conf = 10 /\ WordKept) => Len(emitted) = 1
           /\ (StatedBox.width = 10 \/ StatedBox.height = 10)
                 => emitted = <<>>
           /\ \A i \in 1..Len(emitted) : emitted[i].confidence = raw.conf

\* A word of confidence exactly 10 whose padded box is clamped at the right
\* edge to a width of exactly 11 and that is kept.
C14_Witness ==
    /\ dstage = "emitted"
    /\ detector = "ocr"
    /\ raw.conf = 10
    /\ raw.text = <<"a", "7", " ">>
    /\ StatedBox.width = 11
    /\ Len(emitted) = 1

\* C15: the box a padding detector emits is the raw box grown by the
\* detector's padding on each side and intersected with the image.
C15_PaddedThenIntersected ==
    dstage = "emitted" =>
        \A i \in 1..Len(emitted) :
            /\ emitted[i].x = StatedBox.x
            /\ emitted[i].y = StatedBox.y
            /\ emitted[i].width = StatedBox.width
            /\ emitted[i].height = StatedBox.height

(***************************************************************************)
(* Properties of merge_overlapping_regions (MergeSpec).                    *)
(***************************************************************************)
BoxConf(r) == <<r.x, r.y, r.width, r.height, r.confidence>>

Count(s, v) == Cardinality({i \in 1..Len(s) : BoxConf(s[i]) = v})

\* The same regions: the same boxes with the same confidences, as often.
SameRegions(s, t) ==
    /\ Len(s) = Len(t)
    /\ \A i \in 1..Len(s) : Count(s, BoxConf(s[i])) = Count(t, BoxConf(s[i]))

Merged == mstage \in {"merged", "remerged"}

\* The overlap condition as stated: intersection area divided by the
\* smaller of the two areas is greater than t tenths.
OverlapExceeds(a, b, t) ==
    LET iw == Min2(a.x + a.width, b.x + b.width) - Max2(a.x, b.x)
        ih == Min2(a.y + a.height, b.y + b.height) - Max2(a.y, b.y)
    IN  /\ iw > 0
        /\ ih > 0
        /\ 10 * iw * ih > t * Min2(a.width * a.height, b.width * b.height)

\* Twice the horizontal and vertical offsets of the two centres.
CentreDx2(a, b) == Abs((2 * a.x + a.width) - (2 * b.x + b.width))

CentreDy2(a, b) == Abs((2 * a.y + a.height) - (2 * b.y + b.height))

\* The nearby condition as stated: centre distance below 50px and vertical
\* centre offset below 0.8 times the larger height.
CentresNearby(a, b) ==
    /\ CentreDx2(a, b) * CentreDx2(a, b) + CentreDy2(a, b) * CentreDy2(a, b)
           < 4 * 50 * 50
    /\ 10 * CentreDy2(a, b) < 16 * Max2(a.height, b.height)

\* C2: merging the result of a merge again, with the same threshold, gives
\* the same regions.
C2_MergeIdempotent ==
    mstage = "remerged" => SameRegions(second, first)

\* C3: no two members of a merge result overlap by more than the threshold.
C3_NoOverlapInResult ==
    Merged =>
        \A i, j \in 1..Len(first) :
            i < j => ~OverlapExceeds(first[i], first[j], threshold)

\* C5: a pool of exactly two detections that overlap by more than the
\* threshold merges into one region carrying the larger confidence.
C5_TwoOverlappingBecomeOne ==
    (Merged /\ Len(pool0) = 2 /\ OverlapExceeds(pool0[1], pool0[2], threshold))
        => /\ Len(first) = 1
           /\ first[1].confidence =
                 Max2(pool0[1].confidence, pool0[2].confidence)

\* Two overlapping detections, the less confident one first, that are not
\* nearby: only the overlap merges them.
C5_Witness ==
    /\ mstage = "merged"
    /\ Len(pool0) = 2
    /\ OverlapExceeds(pool0[1], pool0[2], threshold)
    /\ ~CentresNearby(pool0[1], pool0[2])
    /\ pool0[1].confidence < pool0[2].confidence
    /\ Len(first) = 1

\* C6: a pool of exactly two detections that neither overlap by more than
\* the threshold nor are nearby comes back as two regions, each with the
\* box and confidence of one of the inputs.
C6_TwoSeparateStayTwo ==
    (Merged /\ Len(pool0) = 2
        /\ ~OverlapExceeds(pool0[1], pool0[2], threshold)
        /\ ~CentresNearby(pool0[1], pool0[2]))
        => /\ Len(first) = 2
           /\ SameRegions(first, pool0)

\* Two detections whose centres are closer than 50px but not vertically
\* aligned, and that overlap, though not by more than the threshold.
C6_Witness ==
    /\ mstage = "merged"
    /\ Len(pool0) = 2
    /\ ~OverlapExceeds(pool0[1], pool0[2], threshold)
    /\ ~CentresNearby(pool0[1], pool0[2])
    /\ OverlapExceeds(pool0[1], pool0[2], 0)
    /\ pool0[1].confidence # pool0[2].confidence
    /\ Len(first) = 2

\* The members M of which position p of the pool is a part, once for each
\* time it is one.
Resolutions(M, p) ==
    {mn \in (1..Len(M)) \X (1..Len(pool)) :
        /\ mn[2] <= Len(M[mn[1]].parts)
        /\ M[mn[1]].parts[mn[2]] = p}

\* Rectangle a contains rectangle b.
Contains(a, b) ==
    /\ a.x <= b.x
    /\ a.y <= b.y
    /\ b.x + b.width <= a.x + a.width
    /\ b.y + b.height <= a.y + a.height

\* C17: every detection of the pool is the seed or an absorbed detection of
\* exactly one returned member, exactly once, and lies inside that member's
\* box; every member has a seed.
C17_EveryDetectionResolvedOnce ==
    Merged =>
        LET M == members
        IN  /\ Len(pool) = Len(pool0)
            /\ Len(first) = Len(M)
            /\ \A m \in 1..Len(M) :
                  /\ M[m].region = first[m]
                  /\ Len(M[m].parts) >= 1
                  /\ \A n \in 1..Len(M[m].parts) :
                        /\ M[m].parts[n] \in 1..Len(pool)
                        /\ Contains(first[m], pool[M[m].parts[n]])
            /\ \A p \in 1..Len(pool) : Cardinality(Resolutions(M, p)) = 1

\* Three detections merged into two members: the first seed absorbs the
\* last detection of the sorted pool and skips the one in between.
C17_Witness ==
    /\ mstage = "merged"
    /\ Len(pool0) = 3
    /\ Len(first) = 2
    /\ members[1].parts = <<1, 3>>
    /\ members[2].parts = <<2>>

\* The texts of the parts 1..n of a member, joined by single spaces.
RECURSIVE SpaceJoined(_, _)
SpaceJoined(parts, n) ==
    IF n = 1 THEN pool[parts[1]].text
    ELSE SpaceJoined(parts, n - 1) \o <<" ">> \o pool[parts[n]].text

\* C18: the box of a member is the smallest rectangle enclosing the boxes
\* of its seed and absorbed detections, its confidence is the largest of
\* theirs, and its text is their texts joined by single spaces in
\* absorption order.
C18_MemberIsUnionMaxJoin ==
    Merged =>
        LET M == members
        IN  \A m \in 1..Len(first) :
                LET parts == M[m].parts
                    P == {pool[parts[n]] : n \in 1..Len(parts)}
                    r == first[m]
                IN  /\ \A d \in P : Contains(r, d)
                    /\ \E d \in P : d.x = r.x
                    /\ \E d \in P : d.y = r.y
                    /\ \E d \in P : d.x + d.width = r.x + r.width
                    /\ \E d \in P : d.y + d.height = r.y + r.height
                    /\ \A d \in P : d.confidence <= r.confidence
                    /\ \E d \in P : d.confidence = r.confidence
                    /\ r.text = SpaceJoined(parts, Len(parts))

\* One member made of three detections, absorbed in an order that is not
\* the order in which they were handed in.
C18_Witness ==
    /\ mstage = "merged"
    /\ Len(pool0) = 3
    /\ Len(first) = 1
    /\ first[1].text = <<"3", " ", "1", " ", "2">>
    /\ first[1].width > pool[1].width
    /\ first[1].height > pool[1].height

\* The position in the sorted pool of the seed of member m.
SeedOf(m) == members[m].parts[1]

\* C27: the merge takes its seeds in descending (confidence, area) order,
\* the confidence of each member is that of its seed, the returned list is
\* non-increasing in confidence, and its first member has the highest
\* confidence of the pool.
C27_SeedsDescendMembersFollow ==
    Merged =>
        /\ \A i, j \in 1..Len(pool) : i < j => ~KeyLess(pool[i], pool[j])
        /\ \A m \in 1..Len(first) :
              /\ first[m].confidence = pool[SeedOf(m)].confidence
              /\ \A n \in 1..Len(first) :
                    m < n =>
                        /\ SeedOf(m) < SeedOf(n)
                        /\ ~KeyLess(pool[SeedOf(m)], pool[SeedOf(n)])
                        /\ first[m].confidence >= first[n].confidence
        /\ pool0 # <<>> =>
              /\ first # <<>>
              /\ \A i \in 1..Len(pool0) :
                    pool0[i].confidence <= first[1].confidence

\* Three detections handed in with rising keys: the seed of the first
\* member is the last of them, larger than the second at equal confidence,
\* and the member of lower confidence comes out last.
C27_Witness ==
    /\ mstage = "merged"
    /\ Len(pool0) = 3
    /\ Len(first) = 2
    /\ pool0[1].confidence < pool0[2].confidence
    /\ pool0[2].confidence = pool0[3].confidence
    /\ Area(pool0[2]) < Area(pool0[3])
    /\ pool[1] = pool0[3]
    /\ first[2].confidence < first[1].confidence

(***************************************************************************)
(* Properties of single functions (CallSpec).                              *)
(***************************************************************************)
Names(variants) == [i \in 1..Len(variants) |-> variants[i][1]]

StatedPotentialNumberRegion(c) ==
    /\ 15 <= c.w /\ c.w <= 500
    /\ 15 <= c.h /\ c.h <= 100
    /\ 100 <= c.area /\ c.area <= 5000
    /\ 5 * c.w > c.h /\ c.w < 8 * c.h
    /\ 20 * c.dark >= c.w * c.h /\ 5 * c.dark <= 4 * c.w * c.h
    /\ c.std > 15

\* C23: the handwritten detector accepts a region exactly when its size,
\* area and dark fraction lie within the inclusive bounds, its aspect ratio
\* lies strictly between 0.2 and 8 and its standard deviation is strictly
\* above 15.
C23_AcceptsExactlyStated ==
    (callee = "is_potential_number_region" /\ cstage = "returned") =>
        (returned <=> StatedPotentialNumberRegion(args))


\* The padded, clamped matches of the templates that matched, those with
\* a width or a height below 20 left out.
StatedTemplateDetections(matches, failing, W, H) ==
    LET Boxes(i) ==
            [j \in 1..Len(matches[i]) |->
                PadClamp(matches[i][j].x, matches[i][j].y, TemplateSizes[i].w,
                         TemplateSizes[i].h, TemplatePadding, W, H)]
        Stays(b) == ~(b.width < 20 \/ b.height < 20)
        Of(i) == IF i \in failing THEN <<>> ELSE SelectSeq(Boxes(i), Stays)
        all == Of(1) \o Of(2) \o Of(3)
    IN  [j \in 1..Len(all) |->
            Det(all[j].x, all[j].y, all[j].width, all[j].height, 30,
                <<"template_match">>, "template")]

\* C24: the template detector discards a padded, clamped match exactly when
\* its width or its height is below 20; a match with both at least 20, 20
\* itself included, is emitted with confidence 30 and source template.
C24_TemplateKeptFromTwenty ==
    (callee = "detect_by_templates" /\ cstage = "returned") =>
        returned = StatedTemplateDetections(args.matches, args.failing,
                                            args.W, args.H)


\* The contrast test as stated: at least 50 pixels on each side.
StatedCellFlagged(s) == s.std > 30 /\ s.dark >= 50 /\ s.light >= 50

\* C25: a grid cell is flagged, with confidence 20, exactly when its
\* standard deviation is above 30 and at least 50 of its pixels lie below
\* mean - std and at least 50 above mean + std.
C25_CellFlaggedFromFifty ==
    (callee = "detect_by_grid_sampling" /\ cstage = "returned") =>
        \A c \in Range(GridCells(args.W, args.H)) :
            StatedCellFlagged(args.stats[c]) <=>
                \E i \in 1..Len(returned) :
                    returned[i] = Det(c[1], c[2], GridSize, GridSize, 20,
                                      <<"grid_sampled">>, "grid_sampling")

\* The pixels of the box of a detection.
Pixels(d) == (d.x .. d.x + d.width - 1) \X (d.y .. d.y + d.height - 1)

\* C26: for every image size the cells cover every pixel of the image, at
\* least one cell for an image no larger than a cell, and each emitted cell
\* box lies inside the image.
C26_CellsCoverImage ==
    (/\ callee = "detect_by_grid_sampling" /\ cstage = "returned"
     /\ \A c \in DOMAIN args.stats : CellFlagged(args.stats[c])) =>
        /\ Len(returned) >= 1
        /\ \A i \in 1..Len(returned) :
              /\ returned[i].x >= 0 /\ returned[i].y >= 0
              /\ returned[i].x + returned[i].width <= args.W
              /\ returned[i].y + returned[i].height <= args.H
        /\ \A px \in 0..(args.W - 1), py \in 0..(args.H - 1) :
              \E i \in 1..Len(returned) : <<px, py>> \in Pixels(returned[i])


\* C29: regions_overlap never divides by zero, for any two integer boxes,
\* those of zero or negative width or height included: it returns False
\* before the ratio is computed whenever the smaller area would be zero;
\* and its result does not depend on the order of its arguments.
C29_OverlapNeverDividesByZero ==
    (callee = "regions_overlap" /\ cstage \in {"returned", "again"}) =>
        /\ returned \in {"True", "False"}
        /\ (returned = "True") <=>
              regions_overlap(args.region1, args.region2, args.threshold)
        /\ Min2(args.region1.width * args.region1.height,
                args.region2.width * args.region2.height) = 0 =>
              returned = "False"
        /\ cstage = "again" => again = returned

\* A box of width zero on the left edge of a box of positive size, called
\* in both orders: the intersection is empty and the smaller area is zero.
C29_Witness ==
    /\ callee = "regions_overlap"
    /\ cstage = "again"
    /\ args.region1.width = 0
    /\ args.region1.height > 0
    /\ args.region2.width > 0
    /\ args.region2.height > 0
    /\ args.region1.x = args.region2.x
    /\ args.region1.y = args.region2.y
    /\ returned = "False"

====
